---- MODULE Spec2Model ----
(***************************************************************************)
(* Model of the meta-transaction relay handler (relayTransaction) and of   *)
(* the webhook subscription cache (getWebhook).                            *)
(*                                                                         *)
(* A handler is an async function: it runs atomically from one await to    *)
(* the next.  Each action below is "the awaited call resolves, the         *)
(* continuation runs up to the next await (or to the reply), and the call  *)
(* of that next await is issued".  calls[h] records, in order, every       *)
(* external call the handler has issued.                                   *)
(***************************************************************************)
EXTENDS Integers, Sequences, FiniteSets, TLC

(***************************************************************************)
(* Bounds                                                                  *)
(***************************************************************************)
NumReqs == 2          \* relay handler instances that may run concurrently

NumCalls == 2         \* getWebhook calls that may overlap
NumWebhooks == 2      \* rows of the webhook subscription table
MaxEdits == 1         \* edits the configuration process makes to the table

Reqs == 1..NumReqs
Calls == 1..NumCalls

(***************************************************************************)
(* Addresses are character strings; letter case is significant to          *)
(* Array.includes and removed by String.toLowerCase.                       *)
(***************************************************************************)
LowerChar(c) ==
  CASE c = "A" -> "a"
    [] c = "B" -> "b"
    [] c = "C" -> "c"
    [] c = "D" -> "d"
    [] OTHER -> c

toLowerCase(s) == [i \in DOMAIN s |-> LowerChar(s[i])]

includes(list, x) == x \in list

\* addresses a request may carry
ReqAddresses == { <<"a", "b">>, <<"a", "B">>, <<"c", "d">> }

\* an optional allow-list: absent (null) or a list, possibly empty
NoList == [present |-> FALSE, list |-> {}]
SomeList(l) == [present |-> TRUE, list |-> l]
CfgLists ==
  { NoList } \cup
  { SomeList(l) : l \in { {}, {<<"a", "b">>}, {<<"A", "B">>}, {<<"c", "d">>} } }

ChainIds == { 137 }

RelayerIds == { "r1" }
RequestedIds == { "r1", "r9" }

(***************************************************************************)
(* The relayer row as the configuration process wrote it, and the lookup   *)
(* of db/relayer/getRelayerById: allow-lists hold lower-cased addresses.   *)
(***************************************************************************)
RelayerRows ==
  [ chainId : ChainIds,
    allowedContracts : CfgLists,
    allowedForwarders : CfgLists ]

lowerList(l) == [present |-> l.present, list |-> { toLowerCase(a) : a \in l.list }]

NotFound ==
  [ found |-> FALSE, chainId |-> 0,
    allowedContracts |-> NoList, allowedForwarders |-> NoList ]

getRelayerById(table, id) ==
  IF id \in DOMAIN table
  THEN [ found |-> TRUE,
         chainId |-> table[id].chainId,
         allowedContracts |-> lowerList(table[id].allowedContracts),
         allowedForwarders |-> lowerList(table[id].allowedForwarders) ]
  ELSE NotFound

(***************************************************************************)
(* Request bodies (BodySchema): a tagged union of three variants.          *)
(***************************************************************************)
Signatures == { "0xsig", "0xmalformed" }
Values == { "0", "1", "00" }
NoAddress == << >>

ForwardBodies ==
  [ type : {"forward"}, to : ReqAddresses, value : Values,
    signature : Signatures, forwarderAddress : ReqAddresses ]

PermitBodies ==
  [ type : {"permit"}, to : ReqAddresses, value : {"1"},
    signature : Signatures, forwarderAddress : {NoAddress} ]

ExecuteMetaTransactionBodies ==
  [ type : {"execute-meta-transaction"}, to : ReqAddresses, value : {"0"},
    signature : Signatures, forwarderAddress : {NoAddress} ]

Bodies == ForwardBodies \cup PermitBodies \cup ExecuteMetaTransactionBodies

NoBody ==
  [ type |-> "none", to |-> NoAddress, value |-> "0",
    signature |-> "0xsig", forwarderAddress |-> NoAddress ]

\* ethers utils.splitSignature throws on a string that is not a signature
splitSignatureThrows(signature) == signature = "0xmalformed"

(***************************************************************************)
(* The three policy checks of the handler.                                 *)
(***************************************************************************)
unauthorizedContract_NoLower(relayer, body) ==
  /\ relayer.allowedContracts.present
  /\ ~ includes(relayer.allowedContracts.list, body.to)

unauthorizedContract_EmptyAllowsAny(relayer, body) ==
  /\ relayer.allowedContracts.present
  /\ relayer.allowedContracts.list # {}
  /\ ~ includes(relayer.allowedContracts.list, toLowerCase(body.to))

unauthorizedContract(relayer, body) ==
  /\ relayer.allowedContracts.present
  /\ ~ includes(relayer.allowedContracts.list, toLowerCase(body.to))

\* copy-paste slip: the forwarder list is asked about the target contract
unauthorizedForwarder_ChecksTarget(relayer, body) ==
  /\ relayer.allowedForwarders.present
  /\ ~ includes(relayer.allowedForwarders.list, toLowerCase(body.to))

unauthorizedForwarder(relayer, body) ==
  /\ relayer.allowedForwarders.present
  /\ ~ includes(relayer.allowedForwarders.list, toLowerCase(body.forwarderAddress))

nonZeroValue_Never(body) == FALSE

nonZeroValue(body) == body.value # "0"

(***************************************************************************)
(* Replies.  reason names the message the handler sends:                   *)
(*   RelayerNotFound       "No relayer found with id ..."                 *)
(*   UnauthorizedContract  "... to unauthorized contract ..."             *)
(*   UnauthorizedForwarder "... with unauthorized forwarder ..."          *)
(*   NonZeroValueRelay     "... with non-zero value ..."                  *)
(*   UntrustedForwarder    "... with untrusted forwarder ..."             *)
(*   VerificationFailed    "Verification failed with provided ..."        *)
(*   Thrown                an exception left the handler (no reply of its  *)
(*                         own; the framework answers 500)                 *)
(***************************************************************************)
NoReply == [status |-> 0, reason |-> "None", queueId |-> 0]
Rejection(reason) == [status |-> 400, reason |-> reason, queueId |-> 0]
Success(queueId) == [status |-> 200, reason |-> "Ok", queueId |-> queueId]
Thrown == [status |-> 500, reason |-> "Thrown", queueId |-> 0]

RejectionReasons ==
  { "RelayerNotFound", "UnauthorizedContract", "UnauthorizedForwarder",
    "NonZeroValueRelay", "UntrustedForwarder", "VerificationFailed" }

boolString(b) == IF b THEN "true" ELSE "false"

NoTx == [method |-> "none", contract |-> NoAddress]

VARIABLES
  relayers,       \* relayer table of the configuration store
  queue,          \* queued-transaction records, in insertion order
  pc,             \* pc[h]: the await handler h is suspended at
  params,         \* params[h].relayerId
  body,           \* body[h]: the request body
  relayer,        \* relayer[h]: local `relayer`
  tx,             \* tx[h]: local `tx`
  queueId,        \* queueId[h]: local `queueId`
  isTrustedForwarder,  \* isTrustedForwarder[h]: local `isTrustedForwarder`
  valid,          \* valid[h]: local `valid`
  reply,          \* reply[h]: what the caller received
  calls           \* calls[h]: external calls issued so far, in order

relayVars ==
  << relayers, queue, pc, params, body, relayer, tx, queueId,
     isTrustedForwarder, valid, reply, calls >>


(***************************************************************************)
(* Webhook subscription cache.                                             *)
(***************************************************************************)
EventTypes == { "transaction_confirmed", "transaction_errored" }

NoArgs == [eventType |-> "transaction_confirmed", retrieveFromCache |-> TRUE]
NoResult == [kind |-> "none", list |-> << >>]
Returned(list) == [kind |-> "list", list |-> list]
Rejects == [kind |-> "thrown", list |-> << >>]

VARIABLES
  webhookStore,   \* the persisted subscription table
  webhookCache,   \* the Map webhookCache: event type -> list
  edits,          \* edits made to the table so far
  wpc,            \* wpc[c]: where getWebhook call c is
  wargs,          \* wargs[c]: eventType and retrieveFromCache of call c
  webhookConfig,  \* webhookConfig[c]: local `webhookConfig`
  wresult,        \* wresult[c]: what call c returned
  reloads,        \* reloads[c]: reads of the table call c completed
  startEdits,     \* startEdits[c]: edits made when call c was invoked
  preceding       \* preceding[c]: calls that had returned when c was invoked

cacheVars ==
  << webhookStore, webhookCache, edits, wpc, wargs, webhookConfig, wresult,
     reloads, startEdits, preceding >>

vars == << relayVars, cacheVars >>

\* Map.has and Map.get
has(cache, k) == k \in DOMAIN cache
get(cache, k) == cache[k]

\* an array is an object, and every object is truthy
truthy_NonEmpty(list) == list # << >>

truthy(list) == TRUE

\* the map is rebuilt with the one entry
set_Clears(cache, k, v) == [x \in {k} |-> v]

\* the previous entry is kept and the reloaded rows are added to it
set_Merge(cache, k, v) ==
  [x \in DOMAIN cache \cup {k} |->
     IF x = k THEN (IF k \in DOMAIN cache THEN cache[k] \o v ELSE v) ELSE cache[x]]

\* Map.set
set(cache, k, v) ==
  [x \in DOMAIN cache \cup {k} |-> IF x = k THEN v ELSE cache[x]]

\* retrieveFromCache is not looked at
cacheHit_IgnoresFlag(cache, eventType, retrieveFromCache) ==
  has(cache, eventType) /\ truthy(get(cache, eventType))

cacheHit(cache, eventType, retrieveFromCache) ==
  retrieveFromCache /\ has(cache, eventType) /\ truthy(get(cache, eventType))

\* the event type of a subscription is not looked at
filterWebhooks_AnyActive(config, eventType) ==
  SelectSeq(config, LAMBDA webhook : webhook.active)

filterWebhooks(config, eventType) ==
  SelectSeq(config, LAMBDA webhook : webhook.active /\ webhook.eventType = eventType)

\* the table at start: subscriptions to the two event types in turn, the
\* first one active
InitialStore ==
  [i \in 1..NumWebhooks |->
     [ id |-> i,
       eventType |-> IF i % 2 = 1 THEN "transaction_confirmed" ELSE "transaction_errored",
       active |-> (i = 1) ]]

InitCache ==
  /\ webhookStore = InitialStore
  /\ webhookCache = << >>
  /\ edits = 0
  /\ wpc = [c \in Calls |-> "idle"]
  /\ wargs = [c \in Calls |-> NoArgs]
  /\ webhookConfig = [c \in Calls |-> << >>]
  /\ wresult = [c \in Calls |-> NoResult]
  /\ reloads = [c \in Calls |-> 0]
  /\ startEdits = [c \in Calls |-> 0]
  /\ preceding = [c \in Calls |-> {}]

\* getWebhook(eventType, retrieveFromCache) is called: a hit returns the
\* cached list, otherwise getAllWebhooks is issued
GetWebhook(c, eventType, retrieveFromCache) ==
  /\ wpc[c] = "idle"
  /\ \A d \in Calls : d < c => wpc[d] # "idle"    \* calls are numbered as invoked
  /\ wargs' = [wargs EXCEPT ![c] =
       [eventType |-> eventType, retrieveFromCache |-> retrieveFromCache]]
  /\ startEdits' = [startEdits EXCEPT ![c] = edits]
  /\ preceding' = [preceding EXCEPT ![c] = { d \in Calls : wpc[d] = "done" }]
  /\ IF cacheHit(webhookCache, eventType, retrieveFromCache)
     THEN /\ wresult' = [wresult EXCEPT ![c] = Returned(get(webhookCache, eventType))]
          /\ wpc' = [wpc EXCEPT ![c] = "done"]
     ELSE /\ wresult' = wresult
          /\ wpc' = [wpc EXCEPT ![c] = "getAllWebhooks"]
  /\ UNCHANGED << webhookStore, webhookCache, edits, webhookConfig, reloads >>
  /\ UNCHANGED relayVars

\* the query of getAllWebhooks reads the table
GetAllWebhooks(c) ==
  /\ wpc[c] = "getAllWebhooks"
  /\ webhookConfig' = [webhookConfig EXCEPT ![c] = webhookStore]
  /\ reloads' = [reloads EXCEPT ![c] = @ + 1]
  /\ wpc' = [wpc EXCEPT ![c] = "filter"]
  /\ UNCHANGED << webhookStore, webhookCache, edits, wargs, wresult, startEdits, preceding >>
  /\ UNCHANGED relayVars

\* the rejection is caught and an empty list cached for the key
GetAllWebhooksFails_CachesEmpty(c) ==
  /\ wpc[c] = "getAllWebhooks"
  /\ webhookCache' = set(webhookCache, wargs[c].eventType, << >>)
  /\ wresult' = [wresult EXCEPT ![c] = Rejects]
  /\ wpc' = [wpc EXCEPT ![c] = "done"]
  /\ UNCHANGED << webhookStore, edits, wargs, webhookConfig,
                  reloads, startEdits, preceding >>
  /\ UNCHANGED relayVars

\* the query of getAllWebhooks fails; the rejection leaves getWebhook
GetAllWebhooksFails(c) ==
  /\ wpc[c] = "getAllWebhooks"
  /\ wresult' = [wresult EXCEPT ![c] = Rejects]
  /\ wpc' = [wpc EXCEPT ![c] = "done"]
  /\ UNCHANGED << webhookStore, webhookCache, edits, wargs, webhookConfig,
                  reloads, startEdits, preceding >>
  /\ UNCHANGED relayVars

\* getAllWebhooks resolves: filter, webhookCache.set, return
FilterAndSet(c) ==
  /\ wpc[c] = "filter"
  /\ LET eventTypeWebhookDetails == filterWebhooks(webhookConfig[c], wargs[c].eventType) IN
       /\ webhookCache' = set(webhookCache, wargs[c].eventType, eventTypeWebhookDetails)
       /\ wresult' = [wresult EXCEPT ![c] = Returned(eventTypeWebhookDetails)]
  /\ webhookConfig' = [webhookConfig EXCEPT ![c] = << >>]    \* the local goes out of scope
  /\ wpc' = [wpc EXCEPT ![c] = "done"]
  /\ UNCHANGED << webhookStore, edits, wargs, reloads, startEdits, preceding >>
  /\ UNCHANGED relayVars

\* the configuration process revokes or re-activates one subscription
EditWebhook(i) ==
  /\ edits < MaxEdits
  /\ webhookStore' = [webhookStore EXCEPT ![i].active = ~ @]
  /\ edits' = edits + 1
  /\ UNCHANGED << webhookCache, wpc, wargs, webhookConfig, wresult, reloads,
                  startEdits, preceding >>
  /\ UNCHANGED relayVars

(***************************************************************************)
(* db/transactions/queueTx: a fresh identifier per call, status queued.    *)
(***************************************************************************)
freshQueueId(q) == Len(q) + 1

queueTxRecord(q, t, chainId, extension) ==
  [ queueId |-> freshQueueId(q), chainId |-> chainId,
    extension |-> extension, tx |-> t, status |-> "queued" ]

InitRelay ==
  /\ relayers \in [RelayerIds -> RelayerRows]
  /\ queue = << >>
  /\ pc = [h \in Reqs |-> "idle"]
  /\ params = [h \in Reqs |-> [relayerId |-> "r1"]]
  /\ body = [h \in Reqs |-> NoBody]
  /\ relayer = [h \in Reqs |-> NotFound]
  /\ tx = [h \in Reqs |-> NoTx]
  /\ queueId = [h \in Reqs |-> 0]
  /\ isTrustedForwarder = [h \in Reqs |-> "unset"]
  /\ valid = [h \in Reqs |-> "unset"]
  /\ reply = [h \in Reqs |-> NoReply]
  /\ calls = [h \in Reqs |-> << >>]

\* the handler sends r and returns
send(h, r) ==
  /\ reply' = [reply EXCEPT ![h] = r]
  /\ pc' = [pc EXCEPT ![h] = "done"]
  /\ calls' = calls

\* the handler issues external call c and suspends at await `at`
issue(h, c, at) ==
  /\ calls' = [calls EXCEPT ![h] = Append(@, c)]
  /\ pc' = [pc EXCEPT ![h] = at]
  /\ reply' = reply

\* a request arrives; the handler issues getRelayerById
Receive(h, id, b) ==
  /\ pc[h] = "idle"
  /\ params' = [params EXCEPT ![h] = [relayerId |-> id]]
  /\ body' = [body EXCEPT ![h] = b]
  /\ issue(h, "getRelayerById", "getRelayerById")
  /\ UNCHANGED << relayers, queue, relayer, tx, queueId, isTrustedForwarder, valid >>
  /\ UNCHANGED cacheVars

\* getRelayerById resolves
GetRelayerById(h) ==
  /\ pc[h] = "getRelayerById"
  /\ LET found == getRelayerById(relayers, params[h].relayerId) IN
       /\ relayer' = [relayer EXCEPT ![h] = found]
       /\ IF ~ found.found
          THEN send(h, Rejection("RelayerNotFound"))
          ELSE issue(h, "getSdk", "getSdk")
  /\ UNCHANGED << relayers, queue, params, body, tx, queueId, isTrustedForwarder, valid >>
  /\ UNCHANGED cacheVars

\* continuation of the execute-meta-transaction and permit branches
signedBranch(h) ==
  IF splitSignatureThrows(body[h].signature)
  THEN send(h, Thrown)
  ELSE IF unauthorizedContract(relayer[h], body[h])
  THEN send(h, Rejection("UnauthorizedContract"))
  ELSE issue(h, "getContractFromAbi", "getTarget")

\* the contract allow-list asked before the forwarder allow-list
forwardBranch_ContractFirst(h) ==
  IF unauthorizedContract(relayer[h], body[h])
  THEN send(h, Rejection("UnauthorizedContract"))
  ELSE IF unauthorizedForwarder(relayer[h], body[h])
  THEN send(h, Rejection("UnauthorizedForwarder"))
  ELSE IF nonZeroValue(body[h])
  THEN send(h, Rejection("NonZeroValueRelay"))
  ELSE issue(h, "getContractFromAbi", "getTarget")

\* continuation of the forward branch up to the first contract lookup
forwardBranch(h) ==
  IF unauthorizedForwarder(relayer[h], body[h])
  THEN send(h, Rejection("UnauthorizedForwarder"))
  ELSE IF unauthorizedContract(relayer[h], body[h])
  THEN send(h, Rejection("UnauthorizedContract"))
  ELSE IF nonZeroValue(body[h])
  THEN send(h, Rejection("NonZeroValueRelay"))
  ELSE issue(h, "getContractFromAbi", "getTarget")

\* getSdk resolves; the branch of the request type runs
GetSdk(h) ==
  /\ pc[h] = "getSdk"
  /\ IF body[h].type \in {"execute-meta-transaction", "permit"}
     THEN signedBranch(h)
     ELSE forwardBranch(h)
  /\ UNCHANGED << relayers, queue, params, body, relayer, tx, queueId, isTrustedForwarder, valid >>
  /\ UNCHANGED cacheVars

\* every variant prepares the forwarder's method
prepareMethod_AlwaysExecute(type) == "execute"

prepareMethod(type) ==
  CASE type = "execute-meta-transaction" -> "executeMetaTransaction"
    [] type = "permit" -> "permit"
    [] OTHER -> "execute"

\* the forward transaction is prepared before the forwarder is asked
GetTarget_PreparesEarly(h) ==
  /\ pc[h] = "getTarget"
  /\ IF body[h].type = "forward"
     THEN /\ calls' = [calls EXCEPT ![h] = @ \o << "prepare", "isTrustedForwarder" >>]
          /\ pc' = [pc EXCEPT ![h] = "isTrustedForwarder"]
          /\ reply' = reply
     ELSE issue(h, "prepare", "prepare")
  /\ UNCHANGED << relayers, queue, params, body, relayer, tx, queueId, isTrustedForwarder, valid >>
  /\ UNCHANGED cacheVars

\* getContractFromAbi(request.to) resolves
GetTarget(h) ==
  /\ pc[h] = "getTarget"
  /\ IF body[h].type = "forward"
     THEN issue(h, "isTrustedForwarder", "isTrustedForwarder")
     ELSE issue(h, "prepare", "prepare")
  /\ UNCHANGED << relayers, queue, params, body, relayer, tx, queueId, isTrustedForwarder, valid >>
  /\ UNCHANGED cacheVars

\* the answer of isTrustedForwarder is not looked at
IsTrustedForwarder_GoesOn(h, trusted) ==
  /\ pc[h] = "isTrustedForwarder"
  /\ isTrustedForwarder' = [isTrustedForwarder EXCEPT ![h] = boolString(trusted)]
  /\ issue(h, "getContractFromAbi", "getForwarder")
  /\ UNCHANGED << relayers, queue, params, body, relayer, tx, queueId, valid >>
  /\ UNCHANGED cacheVars

\* target.call("isTrustedForwarder") resolves with `trusted`
IsTrustedForwarder(h, trusted) ==
  /\ pc[h] = "isTrustedForwarder"
  /\ isTrustedForwarder' = [isTrustedForwarder EXCEPT ![h] = boolString(trusted)]
  /\ IF ~ trusted
     THEN send(h, Rejection("UntrustedForwarder"))
     ELSE issue(h, "getContractFromAbi", "getForwarder")
  /\ UNCHANGED << relayers, queue, params, body, relayer, tx, queueId, valid >>
  /\ UNCHANGED cacheVars

\* getContractFromAbi(forwarderAddress) resolves; the arguments of verify
\* are evaluated (splitSignature, joinSignature) and verify is issued
GetForwarder(h) ==
  /\ pc[h] = "getForwarder"
  /\ IF splitSignatureThrows(body[h].signature)
     THEN send(h, Thrown)
     ELSE issue(h, "verify", "verify")
  /\ UNCHANGED << relayers, queue, params, body, relayer, tx, queueId, isTrustedForwarder, valid >>
  /\ UNCHANGED cacheVars

\* the result of verify is not looked at
Verify_IgnoresResult(h, result) ==
  /\ pc[h] = "verify"
  /\ valid' = [valid EXCEPT ![h] = boolString(result)]
  /\ issue(h, "prepare", "prepare")
  /\ UNCHANGED << relayers, queue, params, body, relayer, tx, queueId, isTrustedForwarder >>
  /\ UNCHANGED cacheVars

\* forwarder.call("verify") resolves with `result`
Verify(h, result) ==
  /\ pc[h] = "verify"
  /\ valid' = [valid EXCEPT ![h] = boolString(result)]
  /\ IF ~ result
     THEN send(h, Rejection("VerificationFailed"))
     ELSE issue(h, "prepare", "prepare")
  /\ UNCHANGED << relayers, queue, params, body, relayer, tx, queueId, isTrustedForwarder >>
  /\ UNCHANGED cacheVars

\* prepare resolves with the unsigned transaction; queueTx is issued
Prepare(h) ==
  /\ pc[h] = "prepare"
  /\ tx' = [tx EXCEPT ![h] =
       [ method |-> prepareMethod(body[h].type),
         contract |-> IF body[h].type = "forward"
                      THEN body[h].forwarderAddress
                      ELSE toLowerCase(body[h].to) ]]
  /\ issue(h, "queueTx", "queueTx")
  /\ UNCHANGED << relayers, queue, params, body, relayer, queueId, isTrustedForwarder, valid >>
  /\ UNCHANGED cacheVars

\* a failed write is caught and answered like a failed check
QueueTx_CatchesFailure(h, ok) ==
  /\ pc[h] = "queueTx"
  /\ IF ok
     THEN /\ queue' = Append(queue, queueTxRecord(queue, tx[h], relayer[h].chainId, "relayer"))
          /\ queueId' = [queueId EXCEPT ![h] = freshQueueId(queue)]
          /\ pc' = [pc EXCEPT ![h] = "reply"]
          /\ UNCHANGED << reply, calls >>
     ELSE /\ send(h, Rejection("VerificationFailed"))
          /\ UNCHANGED << queue, queueId >>
  /\ UNCHANGED << relayers, params, body, relayer, tx, isTrustedForwarder, valid >>
  /\ UNCHANGED cacheVars

\* an identical queued record is found and its identifier handed back
QueueTx_ReusesIdentical(h, ok) ==
  /\ pc[h] = "queueTx"
  /\ IF ok
     THEN LET same == { i \in 1..Len(queue) :
                          /\ queue[i].tx = tx[h]
                          /\ queue[i].chainId = relayer[h].chainId
                          /\ queue[i].extension = "relayer" }
          IN  /\ queue' = IF same = {} 
                          THEN Append(queue, queueTxRecord(queue, tx[h], relayer[h].chainId, "relayer"))
                          ELSE queue
              /\ queueId' = [queueId EXCEPT ![h] =
                   IF same = {} THEN freshQueueId(queue)
                   ELSE queue[CHOOSE i \in same : TRUE].queueId]
              /\ pc' = [pc EXCEPT ![h] = "reply"]
              /\ UNCHANGED << reply, calls >>
     ELSE /\ send(h, Thrown)
          /\ UNCHANGED << queue, queueId >>
  /\ UNCHANGED << relayers, params, body, relayer, tx, isTrustedForwarder, valid >>
  /\ UNCHANGED cacheVars

\* queueTx writes the record and returns its identifier, or fails
QueueTx(h, ok) ==
  /\ pc[h] = "queueTx"
  /\ IF ok
     THEN /\ queue' = Append(queue, queueTxRecord(queue, tx[h], relayer[h].chainId, "relayer"))
          /\ queueId' = [queueId EXCEPT ![h] = freshQueueId(queue)]
          /\ pc' = [pc EXCEPT ![h] = "reply"]
          /\ UNCHANGED << reply, calls >>
     ELSE /\ send(h, Thrown)
          /\ UNCHANGED << queue, queueId >>
  /\ UNCHANGED << relayers, params, body, relayer, tx, isTrustedForwarder, valid >>
  /\ UNCHANGED cacheVars

\* the handler sends the queue identifier
Reply(h) ==
  /\ pc[h] = "reply"
  /\ send(h, Success(queueId[h]))
  /\ UNCHANGED << relayers, queue, params, body, relayer, tx, queueId, isTrustedForwarder, valid >>
  /\ UNCHANGED cacheVars

handlerStep(h) ==
  \/ GetRelayerById(h)
  \/ GetSdk(h)
  \/ GetTarget(h)
  \/ \E trusted \in BOOLEAN : IsTrustedForwarder(h, trusted)
  \/ GetForwarder(h)
  \/ \E result \in BOOLEAN : Verify(h, result)
  \/ Prepare(h)
  \/ \E ok \in BOOLEAN : QueueTx(h, ok)
  \/ Reply(h)

(***************************************************************************)
(* SpecAuth: one request, every body, every relayer configuration.         *)
(***************************************************************************)
InitAuth == InitRelay /\ InitCache

NextAuth ==
  \/ \E id \in RequestedIds, b \in Bodies : Receive(1, id, b)
  \/ handlerStep(1)

SpecAuth == InitAuth /\ [][NextAuth]_vars

(***************************************************************************)
(* SpecRelay: concurrent requests against one relayer R1 whose allow-lists *)
(* are present, drawn from a sample of bodies that reaches every reply.    *)
(***************************************************************************)
SampleRow ==
  [ chainId |-> 137,
    allowedContracts |-> SomeList({ <<"A", "B">> }),
    allowedForwarders |-> SomeList({ <<"c", "d">> }) ]

forwardBody(to, value, signature, forwarderAddress) ==
  [ type |-> "forward", to |-> to, value |-> value,
    signature |-> signature, forwarderAddress |-> forwarderAddress ]

SampleRequests ==
  { [id |-> "r9", body |-> forwardBody(<<"a", "B">>, "0", "0xsig", <<"c", "d">>)],
    [id |-> "r1", body |-> forwardBody(<<"a", "B">>, "0", "0xsig", <<"c", "d">>)],
    [id |-> "r1", body |-> forwardBody(<<"a", "B">>, "0", "0xsig", <<"a", "b">>)],
    [id |-> "r1", body |-> forwardBody(<<"c", "d">>, "0", "0xsig", <<"c", "d">>)],
    [id |-> "r1", body |-> forwardBody(<<"a", "b">>, "1", "0xsig", <<"c", "d">>)],
    [id |-> "r1", body |-> [ type |-> "permit", to |-> <<"a", "b">>, value |-> "1",
                             signature |-> "0xsig", forwarderAddress |-> NoAddress ]],
    [id |-> "r1", body |-> [ type |-> "permit", to |-> <<"c", "d">>, value |-> "1",
                             signature |-> "0xsig", forwarderAddress |-> NoAddress ]],
    [id |-> "r1", body |-> [ type |-> "execute-meta-transaction", to |-> <<"a", "B">>,
                             value |-> "0", signature |-> "0xmalformed",
                             forwarderAddress |-> NoAddress ]],
    [id |-> "r1", body |-> [ type |-> "execute-meta-transaction", to |-> <<"A", "b">>,
                             value |-> "0", signature |-> "0xsig",
                             forwarderAddress |-> NoAddress ]] }

InitSample ==
  /\ InitRelay
  /\ relayers = [id \in RelayerIds |-> SampleRow]

InitRelaySample == InitSample /\ InitCache

NextRelay ==
  \E h \in Reqs :
    \/ \E s \in SampleRequests : Receive(h, s.id, s.body)
    \/ handlerStep(h)

(***************************************************************************)
(* SpecCache: overlapping getWebhook calls and edits of the table.         *)
(***************************************************************************)
InitCacheSpec == InitSample /\ InitCache

NextCache ==
  \/ \E c \in Calls :
       \/ \E k \in EventTypes, f \in BOOLEAN : GetWebhook(c, k, f)
       \/ GetAllWebhooks(c)
       \/ GetAllWebhooksFails(c)
       \/ FilterAndSet(c)
  \/ \E i \in 1..NumWebhooks : EditWebhook(i)

SpecCache == InitCacheSpec /\ [][NextCache]_vars

SpecRelay == InitRelaySample /\ [][NextRelay]_vars

(***************************************************************************)
(* Vocabulary of the properties, stated on the relayer row as configured   *)
(* and on the request as received.                                         *)
(***************************************************************************)
SameUpToCase(a, b) ==
  /\ Len(a) = Len(b)
  /\ \A i \in 1..Len(a) : LowerChar(a[i]) = LowerChar(b[i])

Listed(list, a) == \E e \in list.list : SameUpToCase(e, a)

RelayerExists(h) == params[h].relayerId \in DOMAIN relayers
Row(h) == relayers[params[h].relayerId]

IsForward(h) == body[h].type = "forward"

FailsContractList(h) ==
  /\ RelayerExists(h)
  /\ Row(h).allowedContracts.present
  /\ ~ Listed(Row(h).allowedContracts, body[h].to)

FailsForwarderList(h) ==
  /\ IsForward(h)
  /\ RelayerExists(h)
  /\ Row(h).allowedForwarders.present
  /\ ~ Listed(Row(h).allowedForwarders, body[h].forwarderAddress)

Called(h, c) == \E i \in 1..Len(calls[h]) : calls[h][i] = c

Rejected(h) == reply[h].reason \in RejectionReasons
RejectedWith(h, reason) == reply[h] = Rejection(reason)

\* the quantity a value string denotes
valueOf(v) == CASE v = "0" -> 0 [] v = "00" -> 0 [] v = "1" -> 1

(***************************************************************************)
(* C1 (as stated).  The checks run in the order relayer existence,         *)
(* contract allow-list, variant-specific checks: every finished request    *)
(* whose relayer exists and whose target contract is outside the allowed   *)
(* contracts is rejected with UnauthorizedContract, whatever its forwarder *)
(* or signature is.                                                        *)
(***************************************************************************)
C1_ContractListFirst ==
  \A h \in Reqs :
    (pc[h] = "done" /\ FailsContractList(h)) => RejectedWith(h, "UnauthorizedContract")

\* the reply the order of the handler's checks gives a finished forward request
ForwardOutcome(h) ==
  IF FailsForwarderList(h) THEN {"UnauthorizedForwarder"}
  ELSE IF FailsContractList(h) THEN {"UnauthorizedContract"}
  ELSE IF body[h].value # "0" THEN {"NonZeroValueRelay"}
  ELSE IF isTrustedForwarder[h] = "false" THEN {"UntrustedForwarder"}
  ELSE IF splitSignatureThrows(body[h].signature) THEN {"Thrown"}
  ELSE IF valid[h] = "false" THEN {"VerificationFailed"}
  ELSE {"Ok", "Thrown"}

\* the reply the order of the handler's checks gives a finished permit or
\* execute-meta-transaction request
SignedOutcome(h) ==
  IF splitSignatureThrows(body[h].signature) THEN {"Thrown"}
  ELSE IF FailsContractList(h) THEN {"UnauthorizedContract"}
  ELSE {"Ok", "Thrown"}

(***************************************************************************)
(* C1 (amended).  The handler short-circuits on the first failure of:      *)
(* relayer existence; then, for Forward, forwarder allow-list, contract    *)
(* allow-list, value = "0", isTrustedForwarder, signature decomposition,   *)
(* verify; for Permit and MetaTransactionExecute, signature decomposition  *)
(* (a malformed signature throws), then contract allow-list.               *)
(***************************************************************************)
C1_ValidationOrder ==
  \A h \in Reqs :
    pc[h] = "done" =>
      reply[h].reason \in
        IF ~ RelayerExists(h) THEN {"RelayerNotFound"}
        ELSE IF IsForward(h) THEN ForwardOutcome(h)
        ELSE SignedOutcome(h)

C1_Witness ==
  \E h \in Reqs :
    /\ pc[h] = "done"
    /\ FailsContractList(h)
    /\ FailsForwarderList(h)
    /\ RejectedWith(h, "UnauthorizedForwarder")

(***************************************************************************)
(* C2.  A Forward request whose forwarder is outside the relayer's         *)
(* allowed-forwarders list never issues isTrustedForwarder, verify or      *)
(* queueTx and obtains no queue identifier.                                *)
(***************************************************************************)
C2_UnlistedForwarderNoCalls ==
  \A h \in Reqs :
    FailsForwarderList(h) =>
      /\ ~ Called(h, "isTrustedForwarder")
      /\ ~ Called(h, "verify")
      /\ ~ Called(h, "queueTx")
      /\ queueId[h] = 0
      /\ reply[h].queueId = 0

C2_Witness ==
  \E h \in Reqs :
    /\ FailsForwarderList(h)
    /\ ~ FailsContractList(h)
    /\ body[h].value = "0"
    /\ RejectedWith(h, "UnauthorizedForwarder")

(***************************************************************************)
(* C3.  A Forward request whose value denotes a non-zero quantity never    *)
(* issues isTrustedForwarder or verify: none has been issued when          *)
(* NonZeroValueRelay is sent and none is issued afterwards.                *)
(***************************************************************************)
C3_NonZeroValueNoReads ==
  \A h \in Reqs :
    (IsForward(h) /\ valueOf(body[h].value) # 0) =>
      /\ ~ Called(h, "isTrustedForwarder")
      /\ ~ Called(h, "verify")
      /\ (RelayerExists(h) /\ ~ FailsForwarderList(h) /\ ~ FailsContractList(h)
            /\ pc[h] = "done") => RejectedWith(h, "NonZeroValueRelay")

C3_Witness ==
  \E h \in Reqs :
    /\ IsForward(h)
    /\ valueOf(body[h].value) # 0
    /\ RejectedWith(h, "NonZeroValueRelay")
    /\ Called(h, "getSdk")

(***************************************************************************)
(* C4.  When verify returned false the request is rejected with            *)
(* VerificationFailed and neither prepare nor queueTx is issued: no        *)
(* transaction is prepared and no identifier obtained.                     *)
(***************************************************************************)
C4_VerifyFalseRejects ==
  \A h \in Reqs :
    valid[h] = "false" =>
      /\ RejectedWith(h, "VerificationFailed")
      /\ ~ Called(h, "prepare")
      /\ ~ Called(h, "queueTx")
      /\ tx[h] = NoTx
      /\ queueId[h] = 0

C4_Witness ==
  \E h \in Reqs :
    /\ valid[h] = "false"
    /\ Called(h, "verify")
    /\ pc[h] = "done"

(***************************************************************************)
(* C5.  Rejection has no side effects: a request that is rejected, for     *)
(* whichever of the six reasons, has issued neither prepare nor queueTx,   *)
(* holds no prepared transaction and no identifier, and the step that      *)
(* sends the rejection leaves the queue as it was.                         *)
(***************************************************************************)
C5_RejectionNoSideEffects ==
  [][ \A h \in Reqs :
        Rejected(h)' =>
          /\ ~ Called(h, "prepare")'
          /\ ~ Called(h, "queueTx")'
          /\ tx'[h] = NoTx
          /\ queueId'[h] = 0
          /\ (~ Rejected(h)) => queue' = queue ]_vars

C5_Witness ==
  \E h \in Reqs :
    /\ RejectedWith(h, "VerificationFailed")
    /\ Len(queue) > 0

(***************************************************************************)
(* C6.  Allow-list membership is case-insensitive: a request whose target  *)
(* contract (forwarder) equals an entry of the configured list up to       *)
(* letter case is never rejected with UnauthorizedContract                 *)
(* (UnauthorizedForwarder).                                                *)
(***************************************************************************)
C6_CaseInsensitiveMembership ==
  \A h \in Reqs :
    RelayerExists(h) =>
      /\ Listed(Row(h).allowedContracts, body[h].to)
            => ~ RejectedWith(h, "UnauthorizedContract")
      /\ (IsForward(h) /\ Listed(Row(h).allowedForwarders, body[h].forwarderAddress))
            => ~ RejectedWith(h, "UnauthorizedForwarder")

\* list entry and request address differ in letter case only, and the
\* request passed both allow-lists
C6_Witness ==
  \E h \in Reqs :
    /\ IsForward(h)
    /\ RelayerExists(h)
    /\ body[h].to \notin Row(h).allowedContracts.list
    /\ Listed(Row(h).allowedContracts, body[h].to)
    /\ body[h].forwarderAddress \notin Row(h).allowedForwarders.list
    /\ Listed(Row(h).allowedForwarders, body[h].forwarderAddress)
    /\ Called(h, "isTrustedForwarder")

(***************************************************************************)
(* C7.  An absent allow-list allows any address; a present one, the empty  *)
(* list included, admits only its members: a request outside a present     *)
(* list never gets as far as prepare.                                      *)
(***************************************************************************)
C7_AbsentListAllowsAny ==
  \A h \in Reqs :
    RelayerExists(h) =>
      /\ ~ Row(h).allowedContracts.present => ~ RejectedWith(h, "UnauthorizedContract")
      /\ ~ Row(h).allowedForwarders.present => ~ RejectedWith(h, "UnauthorizedForwarder")
      /\ ~ IsForward(h) => ~ RejectedWith(h, "UnauthorizedForwarder")
      /\ (FailsContractList(h) \/ FailsForwarderList(h)) =>
            /\ ~ Called(h, "prepare")
            /\ reply[h].reason # "Ok"
            /\ pc[h] = "done" =>
                  reply[h].reason \in
                    {"UnauthorizedContract", "UnauthorizedForwarder", "Thrown"}

\* an empty list rejects, and an absent pair of lists lets a request through
C7_Witness ==
  \E h \in Reqs :
    /\ RelayerExists(h)
    /\ Row(h).allowedContracts = SomeList({})
    /\ ~ Row(h).allowedForwarders.present
    /\ IsForward(h)
    /\ RejectedWith(h, "UnauthorizedContract")

\* the rows of a table that are active and of event type k, in table order
RECURSIVE ActiveFor(_, _)
ActiveFor(store, k) ==
  IF store = << >> THEN << >>
  ELSE LET rest == ActiveFor(Tail(store), k) IN
         IF Head(store).active = TRUE /\ Head(store).eventType = k
         THEN << Head(store) >> \o rest
         ELSE rest

KeyOf(c) == wargs[c].eventType
Cached(c) == wargs[c].retrieveFromCache
Invoked(c) == wpc[c] # "idle"
ReturnedList(c) == wpc[c] = "done" /\ wresult[c].kind = "list"
Overlap(c, d) == c # d /\ Invoked(c) /\ Invoked(d) /\ c \notin preceding[d] /\ d \notin preceding[c]

(***************************************************************************)
(* C8.  getWebhook(eventType, true) on a key the cache holds returns the   *)
(* cached list in the same step, without a read of the table and without   *)
(* touching the cache, also when the cached list is empty.                 *)
(***************************************************************************)
C8_CachedKeyNoStoreRead ==
  [][ \A c \in Calls :
        ( /\ wpc[c] = "idle"
          /\ wpc'[c] # "idle"
          /\ wargs'[c].retrieveFromCache
          /\ wargs'[c].eventType \in DOMAIN webhookCache )
        => /\ wpc'[c] = "done"
           /\ wresult'[c] = Returned(webhookCache[wargs'[c].eventType])
           /\ reloads'[c] = 0
           /\ webhookCache' = webhookCache ]_vars

\* a cached lookup answered with a cached empty list
C8_Witness ==
  \E c \in Calls :
    /\ Cached(c)
    /\ ReturnedList(c)
    /\ reloads[c] = 0
    /\ wresult[c].list = << >>
    /\ \E d \in preceding[c] : KeyOf(d) = KeyOf(c) /\ reloads[d] = 1

(***************************************************************************)
(* C9.  With the table unchanged, two successive cached calls for one      *)
(* event type read the table at most once in total; a call with            *)
(* retrieveFromCache = false that returns has read the table once and      *)
(* returns the active rows of its event type as read.                      *)
(***************************************************************************)
C9_ReloadCounts ==
  [][ /\ \A p \in Calls, q \in Calls :
          ( /\ p \in preceding'[q]
            /\ wargs'[p].eventType = wargs'[q].eventType
            /\ wargs'[p].retrieveFromCache /\ wargs'[q].retrieveFromCache
            /\ startEdits'[p] = edits' )
          => reloads'[p] + reloads'[q] <= 1
      /\ \A c \in Calls :
          (wpc'[c] # "idle" /\ ~ wargs'[c].retrieveFromCache) =>
            /\ wpc[c] = "idle" => wpc'[c] = "getAllWebhooks"
            /\ wpc'[c] = "filter" => reloads'[c] = 1
            /\ (wpc'[c] = "done" /\ wresult'[c].kind = "list") =>
                  /\ reloads'[c] = 1
                  /\ wpc[c] = "filter" =>
                        wresult'[c].list = ActiveFor(webhookConfig[c], wargs[c].eventType)
                  /\ startEdits'[c] = edits' =>
                        wresult'[c].list = ActiveFor(webhookStore', wargs'[c].eventType) ]_vars

\* a forced refresh of a key the cache already held
C9_Witness ==
  \E p \in Calls, q \in Calls :
    /\ p \in preceding[q]
    /\ KeyOf(p) = KeyOf(q)
    /\ Cached(p) /\ reloads[p] = 1
    /\ ~ Cached(q) /\ reloads[q] = 1
    /\ ReturnedList(q)
    /\ wresult[q].list # << >>

(***************************************************************************)
(* C10.  Overlapping calls for one event type against an unchanged table:  *)
(* every call returns the active rows of that type, and once no call is in *)
(* flight the cache entry equals them, whichever call wrote last.          *)
(***************************************************************************)
C10_ConcurrentFillsAgree ==
  \A k \in EventTypes :
    (\A c \in Calls : (Invoked(c) /\ KeyOf(c) = k) => startEdits[c] = edits)
    => /\ \A c \in Calls :
            (ReturnedList(c) /\ KeyOf(c) = k) =>
              wresult[c].list = ActiveFor(webhookStore, k)
       /\ ( /\ \A c \in Calls : (Invoked(c) /\ KeyOf(c) = k) => wpc[c] = "done"
            /\ \E c \in Calls : ReturnedList(c) /\ KeyOf(c) = k )
          => /\ k \in DOMAIN webhookCache
             /\ webhookCache[k] = ActiveFor(webhookStore, k)

\* two overlapping misses have both read the table and written the cache
C10_Witness ==
  \E c \in Calls, d \in Calls :
    /\ Overlap(c, d)
    /\ KeyOf(c) = KeyOf(d)
    /\ reloads[c] = 1 /\ reloads[d] = 1
    /\ ReturnedList(c) /\ ReturnedList(d)
    /\ startEdits[c] = edits /\ startEdits[d] = edits
    /\ webhookCache[KeyOf(c)] # << >>

(***************************************************************************)
(* C11.  Forced-refresh protocol: when every call has returned and a call  *)
(* getWebhook(k, false) invoked after the last edit of the table has       *)
(* returned its list, the cache entry of k is the active rows of type k of *)
(* the current table, however the other calls on k interleaved with it.    *)
(***************************************************************************)
C11_RefreshedCacheIsCurrent ==
  \A k \in EventTypes :
    ( /\ \A c \in Calls : Invoked(c) => wpc[c] = "done"
      /\ \E c \in Calls :
           /\ ReturnedList(c)
           /\ KeyOf(c) = k
           /\ ~ Cached(c)
           /\ startEdits[c] = edits )
    => /\ k \in DOMAIN webhookCache
       /\ webhookCache[k] = ActiveFor(webhookStore, k)

(***************************************************************************)
(* Vocabulary of the queue: the calls of queueTx that have returned.       *)
(***************************************************************************)
Enqueued(h) == queueId[h] # 0

RecordOf(h) == queue[queueId[h]]

(***************************************************************************)
(* C12.  queueTx is injective and does not deduplicate: the identifiers of *)
(* the records are pairwise distinct, two requests that both enqueued hold *)
(* different identifiers even when their transactions are identical, and   *)
(* there is one record per enqueue, carrying the caller's transaction.     *)
(***************************************************************************)
C12_EnqueueInjective ==
  /\ \A i, j \in 1..Len(queue) :
       i # j => queue[i].queueId # queue[j].queueId
  /\ \A g, h \in Reqs :
       (g # h /\ Enqueued(g) /\ Enqueued(h)) => queueId[g] # queueId[h]
  /\ Cardinality({ h \in Reqs : Enqueued(h) }) = Len(queue)
  /\ \A h \in Reqs :
       Enqueued(h) =>
         /\ queueId[h] \in 1..Len(queue)
         /\ RecordOf(h).queueId = queueId[h]
         /\ RecordOf(h).tx = tx[h]

C12_Witness ==
  \E g, h \in Reqs :
    /\ g # h
    /\ body[g] = body[h]
    /\ params[g] = params[h]
    /\ tx[g] = tx[h]
    /\ reply[g].reason = "Ok"
    /\ reply[h].reason = "Ok"
    /\ reply[g].queueId # reply[h].queueId
    /\ Len(queue) = 2

(***************************************************************************)
(* Vocabulary of dispatch: the request passes every check of its variant,  *)
(* as read off the request, the relayer row and the two contract answers.  *)
(***************************************************************************)
PassesAllChecks(h) ==
  /\ RelayerExists(h)
  /\ ~ splitSignatureThrows(body[h].signature)
  /\ ~ FailsContractList(h)
  /\ IsForward(h) =>
       /\ ~ FailsForwarderList(h)
       /\ body[h].value = "0"
       /\ isTrustedForwarder[h] = "true"
       /\ valid[h] = "true"

CallCount(h, c) == Cardinality({ i \in 1..Len(calls[h]) : calls[h][i] = c })

MethodOf(h) ==
  CASE body[h].type = "forward" -> "execute"
    [] body[h].type = "permit" -> "permit"
    [] body[h].type = "execute-meta-transaction" -> "executeMetaTransaction"

(***************************************************************************)
(* C13.  A finished request that passed every check issued exactly one     *)
(* prepare, bound to the method of its variant, and after it exactly one   *)
(* queueTx; no request issues either call twice.  A success reply is sent  *)
(* only after queueTx returned, carries the identifier queueTx returned,   *)
(* and that record holds the relayer's chain id, the prepared transaction  *)
(* and the status queued.                                                  *)
(***************************************************************************)
C13_PrepareThenEnqueue ==
  \A h \in Reqs :
    /\ CallCount(h, "prepare") <= 1
    /\ CallCount(h, "queueTx") <= 1
    /\ (pc[h] = "done" /\ PassesAllChecks(h)) =>
         /\ CallCount(h, "prepare") = 1
         /\ CallCount(h, "queueTx") = 1
         /\ calls[h][Len(calls[h]) - 1] = "prepare"
         /\ calls[h][Len(calls[h])] = "queueTx"
         /\ tx[h].method = MethodOf(h)
         /\ reply[h].reason \in {"Ok", "Thrown"}
    /\ reply[h].reason = "Ok" =>
         /\ PassesAllChecks(h)
         /\ Enqueued(h)
         /\ reply[h] = Success(queueId[h])
         /\ RecordOf(h).queueId = reply[h].queueId
         /\ RecordOf(h).chainId = Row(h).chainId
         /\ RecordOf(h).tx = tx[h]
         /\ RecordOf(h).tx.method = MethodOf(h)
         /\ RecordOf(h).extension = "relayer"
         /\ RecordOf(h).status = "queued"

C13_Witness ==
  \E g, h \in Reqs :
    /\ body[g].type = "permit"
    /\ body[h].type = "execute-meta-transaction"
    /\ reply[g].reason = "Ok"
    /\ reply[h].reason = "Ok"
    /\ reply[h].queueId = 1
    /\ reply[g].queueId = 2
    /\ RecordOf(g).tx.method = "permit"
    /\ RecordOf(h).tx.method = "executeMetaTransaction"

\* the request called queueTx and returned without an identifier
EnqueueFailed(h) == pc[h] = "done" /\ Called(h, "queueTx") /\ ~ Enqueued(h)

(***************************************************************************)
(* C14.  When the write of queueTx fails, the request ends with the        *)
(* exception leaving the handler: the outcome is none of the rejections    *)
(* and not a success, it carries no queue identifier, and the failed call  *)
(* leaves no record behind.                                                *)
(***************************************************************************)
C14_EnqueueFailurePropagates ==
  /\ \A h \in Reqs :
       EnqueueFailed(h) =>
         /\ reply[h] = Thrown
         /\ reply[h].reason \notin RejectionReasons \cup {"Ok"}
         /\ reply[h].status \notin {200, 400}
         /\ reply[h].queueId = 0
         /\ PassesAllChecks(h)
  /\ Len(queue) = Cardinality({ h \in Reqs : Enqueued(h) })

C14_Witness ==
  \E g, h \in Reqs :
    /\ EnqueueFailed(h)
    /\ reply[h] = Thrown
    /\ body[g] = body[h]
    /\ reply[g] = Success(1)
    /\ Len(queue) = 1

(***************************************************************************)
(* C17.  Frame of getWebhook on the cache: an entry of the cache appears   *)
(* or changes only in the step in which a call for that very key fills it, *)
(* and it then is exactly the filtered rows of that call's snapshot,       *)
(* whatever the entry held before; the entries of all other keys stay as   *)
(* they were, and no entry is ever removed.                                *)
(***************************************************************************)
C17_OnlyOwnKeyReplaced ==
  [][ \A k \in EventTypes :
        /\ has(webhookCache, k) => has(webhookCache', k)
        /\ ( \/ has(webhookCache, k) # has(webhookCache', k)
             \/ (has(webhookCache, k) /\ webhookCache'[k] # webhookCache[k]) )
           => \E c \in Calls :
                /\ wpc[c] = "filter" /\ wpc'[c] = "done"
                /\ KeyOf(c) = k
                /\ webhookCache'[k] = ActiveFor(webhookConfig[c], k)
                /\ wresult'[c] = Returned(webhookCache'[k])
    ]_vars

\* a call filled its key while the other key was cached, and that entry stayed
C17_Witness ==
  \E c \in Calls, d \in Calls :
    /\ c \in preceding[d]
    /\ KeyOf(c) # KeyOf(d)
    /\ reloads[c] = 1 /\ reloads[d] = 1
    /\ ReturnedList(c) /\ ReturnedList(d)
    /\ DOMAIN webhookCache = EventTypes
    /\ webhookCache[KeyOf(c)] = wresult[c].list
    /\ webhookCache[KeyOf(c)] # << >>
    /\ webhookCache[KeyOf(d)] = wresult[d].list

(***************************************************************************)
(* Vocabulary of filter soundness.                                         *)
(***************************************************************************)
AllActiveFor(list, k) ==
  \A i \in 1..Len(list) : list[i].active = TRUE /\ list[i].eventType = k

RowsOf(list) == { list[i] : i \in 1..Len(list) }

\* no call other than c and p has written the entry of their key
OnlyWriters(c, p) ==
  \A d \in Calls \ {c, p} :
    KeyOf(d) = KeyOf(c) => ~ (wpc[d] = "done" /\ reloads[d] = 1)

(***************************************************************************)
(* C18.  Filter soundness: every subscription cached under k and every     *)
(* subscription returned by a call for k is active and of event type k,    *)
(* and, in the step that fills the entry, is a row of the snapshot that    *)
(* call loaded.  A cached lookup that follows a forced refresh of the same *)
(* key, no other call having written the entry, returns the list the       *)
(* refresh returned.                                                       *)
(***************************************************************************)
C18_FilterSound ==
  /\ [] ( /\ \A k \in DOMAIN webhookCache : AllActiveFor(webhookCache[k], k)
          /\ \A c \in Calls :
               ReturnedList(c) => AllActiveFor(wresult[c].list, KeyOf(c))
          /\ \A c \in Calls, p \in Calls :
               ( /\ ReturnedList(c) /\ Cached(c) /\ reloads[c] = 0
                 /\ p \in preceding[c]
                 /\ ReturnedList(p) /\ ~ Cached(p)
                 /\ KeyOf(p) = KeyOf(c)
                 /\ OnlyWriters(c, p) )
               => wresult[c].list = wresult[p].list )
  /\ [][ \A c \in Calls :
           (wpc[c] = "filter" /\ wpc'[c] = "done") =>
             /\ RowsOf(webhookCache'[KeyOf(c)]) \subseteq RowsOf(webhookConfig[c])
             /\ RowsOf(wresult'[c].list) \subseteq RowsOf(webhookConfig[c])
     ]_vars

\* a cached lookup after a forced refresh and an edit returns the refresh's list
C18_Witness ==
  \E c \in Calls, p \in Calls :
    /\ ReturnedList(c) /\ Cached(c) /\ reloads[c] = 0
    /\ p \in preceding[c]
    /\ ReturnedList(p) /\ ~ Cached(p)
    /\ KeyOf(p) = KeyOf(c)
    /\ startEdits[p] < startEdits[c]
    /\ wresult[p].list # << >>
    /\ wresult[c].list = wresult[p].list

(***************************************************************************)
(* Vocabulary of the forward path: the contract and queue calls a request  *)
(* has issued, in the order issued.                                        *)
(***************************************************************************)
ForwardPath == << "isTrustedForwarder", "verify", "prepare", "queueTx" >>

PathCalls(h) ==
  SelectSeq(calls[h], LAMBDA c : \E i \in 1..Len(ForwardPath) : ForwardPath[i] = c)

IsPrefix(s, t) == Len(s) <= Len(t) /\ \A i \in 1..Len(s) : s[i] = t[i]

(***************************************************************************)
(* C19.  A Forward request issues isTrustedForwarder, verify, prepare of   *)
(* execute and queueTx in this order, each at most once and none without   *)
(* the one before it.  When isTrustedForwarder answers false the request   *)
(* is rejected with UntrustedForwarder and verify is never called; verify  *)
(* is called only after isTrustedForwarder answered true, and prepare only *)
(* after both answered true.                                               *)
(***************************************************************************)
C19_ForwardCallOrder ==
  \A h \in Reqs :
    IsForward(h) =>
      /\ IsPrefix(PathCalls(h), ForwardPath)
      /\ isTrustedForwarder[h] = "false" =>
           /\ RejectedWith(h, "UntrustedForwarder")
           /\ PathCalls(h) = << "isTrustedForwarder" >>
      /\ Called(h, "verify") => isTrustedForwarder[h] = "true"
      /\ Called(h, "prepare") =>
           /\ isTrustedForwarder[h] = "true"
           /\ valid[h] = "true"
      /\ valid[h] = "false" => ~ Called(h, "prepare")
      /\ Called(h, "queueTx") => tx[h].method = "execute"

C19_Witness ==
  \E h \in Reqs :
    /\ IsForward(h)
    /\ ~ FailsContractList(h)
    /\ ~ FailsForwarderList(h)
    /\ isTrustedForwarder[h] = "false"
    /\ RejectedWith(h, "UntrustedForwarder")
    /\ ~ Called(h, "verify")
    /\ pc[h] = "done"

(***************************************************************************)
(* C20.  A Forward request that reaches the value check is rejected with   *)
(* NonZeroValueRelay exactly when its value denotes a non-zero quantity:   *)
(* every way of writing zero passes the check.                             *)
(***************************************************************************)
C20_ZeroValuePasses ==
  \A h \in Reqs :
    ( /\ IsForward(h)
      /\ pc[h] = "done"
      /\ RelayerExists(h)
      /\ ~ FailsForwarderList(h)
      /\ ~ FailsContractList(h) )
    => (RejectedWith(h, "NonZeroValueRelay") <=> valueOf(body[h].value) # 0)

(***************************************************************************)
(* Vocabulary of a failed reload.                                          *)
(***************************************************************************)
Failed(c) == wpc[c] = "done" /\ wresult[c] = Rejects

Filled(c) == ReturnedList(c) /\ reloads[c] = 1

\* p is the only call that has written the entry of its key
SoleWriter(p) ==
  /\ Filled(p)
  /\ \A d \in Calls \ {p} : KeyOf(d) = KeyOf(p) => ~ Filled(d)

====
